---- MODULE Spec2Model ----
(***************************************************************************)
(* A model of modman's artifact acquisition core:                          *)
(*   - Ratelimiter          (src/src/modman/api.py, class Ratelimiter)     *)
(*   - ModrinthAPI._get / _get_json and the operations built on them       *)
(*   - SearchIterator       (__next__, page, all)                          *)
(*   - DownloadThread.run   (src/src/modman/lib.py)                        *)
(*                                                                         *)
(*   - construct_facets, Version ordering, Version.primary_file            *)
(*                                                                         *)
(* The specifications share the variables:                                 *)
(*   SpecTracker  the Ratelimiter class on its own                         *)
(*   Spec         one API client, its tracker and one search iterator,     *)
(*                driven by a single thread against an arbitrary server    *)
(*   SpecClient   the API client and its tracker, with the responses kept  *)
(*   SpecDl       one download worker against an arbitrary server          *)
(*   SpecDl2      two download workers, their steps interleaved            *)
(*   SpecDrain    one whole iteration against a server with a fixed total  *)
(*   SpecThreads  two threads calling _get on one client, no lock          *)
(*   SpecPure     the pure functions, applied to inputs drawn by Init      *)
(***************************************************************************)
EXTENDS Integers, Sequences, FiniteSets, TLC

VARIABLES
    rl,       \* the Ratelimiter: [limit, remaining, reset, last_hit]
    now,      \* the wall clock (datetime.now()), in seconds
    last,     \* the most recent call and how it ended (observation only)
    it,       \* the SearchIterator: [limit, offset, page, page_cache, total_hits]
    allpc,    \* position of a running all(): "idle" | "running"
    allr,     \* all(): the list r being accumulated / returned
    served,   \* all(): the pages the server served to this all() (observation)
    dl,       \* DownloadThread state, per worker
    fs,       \* the filesystem: target path -> <<>> (absent) or <<bytes>>
    sink,     \* the progress sink: task id -> [total, completed]
    obs,      \* what the last call received or returned (observation only)
    th        \* the threads calling one client: thread -> its place in _get

vars == <<rl, now, last, it, allpc, allr, served, dl, fs, sink, obs, th>>

(***************************************************************************)
(* Bounds of the model.                                                    *)
(***************************************************************************)
MaxTime == 3      \* the clock runs from StartTime to MaxTime
MaxPage == 1      \* the server holds data for pages 0..MaxPage

(***************************************************************************)
(* Time.  datetime.min is the smallest representable instant; the clock    *)
(* starts after it.                                                        *)
(***************************************************************************)
MinTime == 0
StartTime == MinTime + 1

(***************************************************************************)
(* Optional arguments: <<>> is None, <<v>> is the value v.                 *)
(***************************************************************************)
None == <<>>
Some(v) == <<v>>

\* Python's `x or d` for an optional int: None and 0 are falsy.
OrElse(x, d) == IF x = None \/ x[1] = 0 THEN d ELSE x[1]

(***************************************************************************)
(* class Ratelimiter                                                       *)
(***************************************************************************)
DEFAULT_LIMIT == 300

Ratelimiter_init(limit, remaining, reset, t) ==
    LET rs == OrElse(reset, 0) IN
    [ limit     |-> limit,
      remaining |-> OrElse(remaining, limit),
      reset     |-> rs,
      last_hit  |-> IF rs = 0 THEN MinTime ELSE t ]

reset_at(r) == r.last_hit + r.reset

\* A sync that skips a zero as well as a negative value (`if remaining > 0`).
sync_skips_zero(r, limit, remaining, reset, t) ==
    [ limit     |-> IF limit > 0 THEN limit ELSE r.limit,
      remaining |-> IF remaining > 0 THEN remaining ELSE r.remaining,
      reset     |-> IF reset > 0 THEN reset ELSE r.reset,
      last_hit  |-> t ]

sync(r, limit, remaining, reset, t) ==
    [ limit     |-> IF limit >= 0 THEN limit ELSE r.limit,
      remaining |-> IF remaining >= 0 THEN remaining ELSE r.remaining,
      reset     |-> IF reset >= 0 THEN reset ELSE r.reset,
      last_hit  |-> t ]

\* A check that looks at the window only and forgets the budget.
are_ratelimited_window_only(r, t) == reset_at(r) >= t

are_ratelimited(r, t) == reset_at(r) >= t /\ r.remaining = 0

(***************************************************************************)
(* What `last` records of a call.                                          *)
(*   op      the operation                                                 *)
(*   args    its arguments                                                 *)
(*   outcome "ok" or the exception it raised                               *)
(*   sent    the number of HTTP requests it issued                         *)
(*   status  the status of the response it got (0: none)                   *)
(*   until   Ratelimited.until (MinTime when not raised)                   *)
(***************************************************************************)
Call(op, args, outcome, sent, status, until) ==
    [ op |-> op, args |-> args, outcome |-> outcome, sent |-> sent,
      status |-> status, until |-> until ]

NoCall == Call("none", <<>>, "ok", 0, 0, MinTime)

(***************************************************************************)
(* SearchIterator.__init__ (api.py:76-102).                                *)
(***************************************************************************)
MAX_LIMIT == 100
INITIAL_TOTAL_HITS == 9999

EmptyCache == [p \in {} |-> 0]

\* A validation whose upper test is `limit > 101`.
limit_valid_upto_101(limit) == ~(limit > MAX_LIMIT + 1) /\ ~(limit <= 0)

\* SearchIterator.__init__: "ValueError" or the new iterator.
limit_valid(limit) == ~(limit > MAX_LIMIT) /\ ~(limit <= 0)

SearchIterator_init(offset, limit) ==
    [ limit |-> limit, offset |-> offset, page |-> offset \div limit,
      page_cache |-> EmptyCache, total_hits |-> INITIAL_TOTAL_HITS ]

(***************************************************************************)
(* SpecTracker: the Ratelimiter driven directly.                           *)
(***************************************************************************)
CtorLimits == {1, DEFAULT_LIMIT}
CtorOpts == {None, Some(-1), Some(0), Some(1)}
SyncArgs == {-2, -1, 0, 1, 2}

\* The parts of the state a specification does not use.
IdleIterator == SearchIterator_init(0, 1)

TrackerInit ==
    /\ now = StartTime
    /\ \E l \in CtorLimits, rem \in CtorOpts, rs \in CtorOpts :
          rl = Ratelimiter_init(l, rem, rs, StartTime)
    /\ last = NoCall
    /\ it = IdleIterator
    /\ allpc = "idle" /\ allr = <<>> /\ served = <<>>
    /\ dl = <<>> /\ fs = <<>> /\ sink = <<>> /\ th = <<>> /\ obs = <<>>

\* Time passes between two calls.  allr and served belong to the last
\* call: they are the value all() returned and what it was served.
Tick ==
    /\ now < MaxTime
    /\ now' = now + 1
    /\ last' = Call("tick", <<>>, "ok", 0, 0, MinTime)
    /\ allr' = IF allpc = "idle" THEN <<>> ELSE allr
    /\ served' = IF allpc = "idle" THEN <<>> ELSE served
    /\ UNCHANGED <<rl, it, allpc, dl, fs, sink, obs, th>>

TrkSync ==
    \E l \in SyncArgs, rem \in SyncArgs, rs \in SyncArgs :
        /\ rl' = sync(rl, l, rem, rs, now)
        /\ last' = Call("sync", <<l, rem, rs>>, "ok", 0, 0, MinTime)
        /\ UNCHANGED <<now, it, allpc, allr, served, dl, fs, sink, obs, th>>

TrkCheck ==
    /\ last' = Call("are_ratelimited", <<>>,
                    IF are_ratelimited(rl, now) THEN "True" ELSE "False",
                    0, 0, reset_at(rl))
    /\ UNCHANGED <<rl, now, it, allpc, allr, served, dl, fs, sink, obs, th>>

TrackerNext == Tick \/ TrkSync \/ TrkCheck

SpecTracker == TrackerInit /\ [][TrackerNext]_vars

(***************************************************************************)
(* The server.  A response carries a status, the three ratelimit headers   *)
(* (-1: header absent, api.py:215-217) and, for /search, a page: the       *)
(* number of hits it holds and the total_hits it reports.  The hits of the *)
(* page requested at offset o are the items o+1, o+2, ...                  *)
(***************************************************************************)
Statuses == {200, 404, 414, 500}
Headers == { <<-1, -1, -1>>, <<1, 0, 1>>, <<-1, 1, 0>>, <<-1, 0, -1>> }
SmallTotal == 3
LargeTotal == 700

Response(status, hdr, nhits, total) ==
    [ status |-> status, hlimit |-> hdr[1], hremaining |-> hdr[2], hreset |-> hdr[3],
      nhits |-> nhits, total_hits |-> total ]

\* A success test that lets client errors through.
is_success_upto_499(status) == status >= 200 /\ status <= 499

\* httpx.Response.is_success
is_success(status) == status >= 200 /\ status <= 299

Hits(offset, n) == [i \in 1..n |-> offset + i]

\* Responses to a request that is not a search.
PlainResponses == { Response(st, h, 0, 0) : st \in Statuses, h \in Headers }

\* Responses to a search for page `page` with page size `limit`: a failure,
\* or a page.  The server has no full page beyond MaxPage; when it reports
\* the large total it serves the fullest page it has.
MaxHits(page, limit) == IF page >= MaxPage THEN limit - 1 ELSE limit

SearchResponses(page, limit) ==
    { Response(404, h, 0, 0) : h \in Headers }
    \cup
    { Response(200, h, n, SmallTotal) : h \in Headers, n \in 0..MaxHits(page, limit) }
    \cup
    { Response(200, h, MaxHits(page, limit), LargeTotal) : h \in Headers }

(***************************************************************************)
(* ModrinthAPI._get and _get_json.  The two readings of the clock in _get  *)
(* (are_ratelimited, then sync) are taken at one instant t: a check that   *)
(* passes at t passes at every later instant, so a request that takes time *)
(* is a Tick followed by the call.  The result of a call:                  *)
(*   raised  "none" or the exception                                       *)
(*   until   Ratelimited.until                                             *)
(*   rl, now the tracker and the clock after the call                      *)
(*   sent    HTTP requests issued                                          *)
(*   status  status of the response (0: no response)                       *)
(***************************************************************************)
\* A _get that sends the request without consulting the tracker.
get_unchecked(r, t, resp) ==
    [ raised |-> "none", until |-> MinTime,
      rl |-> sync(r, resp.hlimit, resp.hremaining, resp.hreset, t),
      now |-> t, sent |-> 1, status |-> resp.status ]

\* A _get that reads the ratelimit headers of successful responses only.
get_sync_on_success(r, t, resp) ==
    IF are_ratelimited(r, t)
    THEN [ raised |-> "Ratelimited", until |-> reset_at(r),
           rl |-> r, now |-> t, sent |-> 0, status |-> 0 ]
    ELSE [ raised |-> "none", until |-> MinTime,
           rl |-> IF is_success(resp.status)
                  THEN sync(r, resp.hlimit, resp.hremaining, resp.hreset, t)
                  ELSE r,
           now |-> t, sent |-> 1, status |-> resp.status ]

get(r, t, resp) ==
    IF are_ratelimited(r, t)
    THEN [ raised |-> "Ratelimited", until |-> reset_at(r),
           rl |-> r, now |-> t, sent |-> 0, status |-> 0 ]
    ELSE [ raised |-> "none", until |-> MinTime,
           rl |-> sync(r, resp.hlimit, resp.hremaining, resp.hreset, t),
           now |-> t, sent |-> 1, status |-> resp.status ]

get_json(r, t, resp) ==
    LET g == get(r, t, resp) IN
    IF g.raised = "none" /\ ~is_success(g.status)
    THEN [g EXCEPT !.raised = "HTTPStatusError"]
    ELSE g

(***************************************************************************)
(* SpecClient: one ModrinthAPI and its tracker, called by a single thread; *)
(* obs keeps the response the last call received (None: it sent nothing).  *)
(***************************************************************************)
ClientInit ==
    /\ now = StartTime
    /\ rl = Ratelimiter_init(DEFAULT_LIMIT, None, None, StartTime)
    /\ last = NoCall
    /\ it = IdleIterator
    /\ allpc = "idle" /\ allr = <<>> /\ served = <<>>
    /\ dl = <<>> /\ fs = <<>> /\ sink = <<>> /\ th = <<>> /\ obs = <<>>

\* One _get_json call against an arbitrary server.
ClientGetJson ==
    /\ \E resp \in PlainResponses :
          \E g \in {get_json(rl, now, resp)} :
          /\ rl' = g.rl
          /\ now' = g.now
          /\ last' = Call("get_json", <<>>,
                          IF g.raised = "none" THEN "ok" ELSE g.raised,
                          g.sent, g.status, g.until)
          /\ obs' = IF g.sent = 1 THEN Some(resp) ELSE None
    /\ UNCHANGED <<it, allpc, allr, served, dl, fs, sink, th>>

\* The operations below record in obs the response together with the URL
\* of the request it answers; a URL is the sequence of the pieces of its
\* f-string.
Answer(resp, url) == [url |-> url] @@ resp

\* A get_multiple_versions that takes every 4xx for an oversized request.
get_multiple_versions_4xx(r, t, resp) ==
    LET g == get_json(r, t, resp) IN
    IF g.raised = "HTTPStatusError" /\ g.status >= 400 /\ g.status <= 499
    THEN [g EXCEPT !.raised = "ValueError"]
    ELSE g

\* get_multiple_versions: HTTPStatusError with status 414 becomes
\* ValueError, any other is re-raised.
get_multiple_versions(r, t, resp) ==
    LET g == get_json(r, t, resp) IN
    IF g.raised = "HTTPStatusError" /\ g.status = 414
    THEN [g EXCEPT !.raised = "ValueError"]
    ELSE g

\* check_slug_validity: `except HTTPStatusError: raise ValueError`.
check_slug_validity(r, t, resp) ==
    LET g == get_json(r, t, resp) IN
    IF g.raised = "HTTPStatusError"
    THEN [g EXCEPT !.raised = "ValueError"]
    ELSE g

\* get_project_dependencies: a str is the slug, a Project gives its id.
SlugArgs == { [t |-> "str", v |-> "sodium"], [t |-> "Project", v |-> "AANobbMI"] }
Ids == { <<"v1">>, <<"v1", "v2">> }

versions_url == <<"/versions">>
check_url(slug) == <<"/project/", slug, "/check">>
dependencies_url(slug) == <<"/project    /", slug.v, "/dependencies">>

get_project_dependencies(r, t, resp) == get_json(r, t, resp)

\* What a client operation leaves: g is the result of its request.
ClientCall(op, args, g, resp, url) ==
    /\ rl' = g.rl
    /\ now' = g.now
    /\ last' = Call(op, args, IF g.raised = "none" THEN "ok" ELSE g.raised,
                    g.sent, g.status, g.until)
    /\ obs' = IF g.sent = 1 THEN Some(Answer(resp, url)) ELSE None
    /\ UNCHANGED <<it, allpc, allr, served, dl, fs, sink, th>>

ClientGetMultipleVersions ==
    \E ids \in Ids, resp \in PlainResponses :
        \E g \in {get_multiple_versions(rl, now, resp)} :
            ClientCall("get_multiple_versions", ids, g, resp, versions_url)

ClientCheckSlug ==
    \E slug \in {"sodium"}, resp \in PlainResponses :
        \E g \in {check_slug_validity(rl, now, resp)} :
            ClientCall("check_slug_validity", slug, g, resp, check_url(slug))

ClientGetProjectDependencies ==
    \E slug \in SlugArgs, resp \in PlainResponses :
        \E g \in {get_project_dependencies(rl, now, resp)} :
            ClientCall("get_project_dependencies", slug, g, resp, dependencies_url(slug))

ClientNext ==
    \/ Tick
    \/ ClientGetJson
    \/ ClientGetMultipleVersions
    \/ ClientCheckSlug
    \/ ClientGetProjectDependencies

SpecClient == ClientInit /\ [][ClientNext]_vars

(***************************************************************************)
(* class SearchIterator                                                    *)
(***************************************************************************)
\* construct_params: the offset asked of the server.
construct_params(itr) == [ offset |-> itr.limit * itr.page, limit |-> itr.limit ]

\* (parsed.total_hits / self.limit) > ratelimiter.limit, in true division.
too_vague_floor(total_hits, limit, rlimit) == (total_hits \div limit) > rlimit

too_vague(total_hits, limit, rlimit) == total_hits > rlimit * limit

CachePut(cache, n, parsed) ==
    [p \in (DOMAIN cache) \cup {n} |-> IF p = n THEN parsed ELSE cache[p]]

\* The result of __next__ / page: the call's result (as get's) plus
\*   it      the iterator after the call
\*   value   <<>> or <<the SearchResult returned>>
Outcome(g, raised, itr, value) ==
    [ raised |-> raised, until |-> g.until, rl |-> g.rl, now |-> g.now,
      sent |-> g.sent, status |-> g.status, it |-> itr, value |-> value ]

\* A __next__ that lets the HTTP error out instead of ending the sequence.
next_propagates(itr, r, t, resp) ==
    LET g      == get_json(r, t, resp)
        parsed == [ hits |-> Hits(construct_params(itr).offset, resp.nhits),
                    total_hits |-> resp.total_hits ]
        it2    == [itr EXCEPT !.total_hits = parsed.total_hits,
                              !.page_cache = CachePut(itr.page_cache, itr.page, parsed),
                              !.page = itr.page + 1]
    IN  IF g.raised = "Ratelimited" THEN Outcome(g, "Ratelimited", itr, <<>>)
        ELSE IF g.raised = "HTTPStatusError" THEN Outcome(g, "HTTPStatusError", itr, <<>>)
        ELSE IF too_vague(parsed.total_hits, itr.limit, g.rl.limit)
             THEN Outcome(g, "RuntimeError", itr, <<>>)
        ELSE IF parsed.hits = <<>> THEN Outcome(g, "StopIteration", it2, <<>>)
        ELSE IF Len(parsed.hits) < itr.limit THEN Outcome(g, "StopIteration", it2, <<>>)
        ELSE Outcome(g, "none", it2, <<parsed>>)

\* A __next__ that caches the page and moves the cursor before the budget
\* check instead of after it.
next_caches_first(itr, r, t, resp) ==
    LET g      == get_json(r, t, resp)
        parsed == [ hits |-> Hits(construct_params(itr).offset, resp.nhits),
                    total_hits |-> resp.total_hits ]
        it2    == [itr EXCEPT !.total_hits = parsed.total_hits,
                              !.page_cache = CachePut(itr.page_cache, itr.page, parsed),
                              !.page = itr.page + 1]
    IN  IF g.raised = "Ratelimited" THEN Outcome(g, "Ratelimited", itr, <<>>)
        ELSE IF g.raised = "HTTPStatusError" THEN Outcome(g, "StopIteration", itr, <<>>)
        ELSE IF too_vague(parsed.total_hits, itr.limit, g.rl.limit)
             THEN Outcome(g, "RuntimeError", it2, <<>>)
        ELSE IF parsed.hits = <<>> THEN Outcome(g, "StopIteration", it2, <<>>)
        ELSE IF Len(parsed.hits) < itr.limit THEN Outcome(g, "StopIteration", it2, <<>>)
        ELSE Outcome(g, "none", it2, <<parsed>>)

\* SearchIterator.__next__.  The self-throttle sleep of api.py:152-154 only
\* lets the clock run before a full page is returned: it is a Tick after the
\* call.
next(itr, r, t, resp) ==
    LET g      == get_json(r, t, resp)
        parsed == [ hits |-> Hits(construct_params(itr).offset, resp.nhits),
                    total_hits |-> resp.total_hits ]
        it2    == [itr EXCEPT !.total_hits = parsed.total_hits,
                              !.page_cache = CachePut(itr.page_cache, itr.page, parsed),
                              !.page = itr.page + 1]
    IN  IF g.raised = "Ratelimited" THEN Outcome(g, "Ratelimited", itr, <<>>)
        ELSE IF g.raised = "HTTPStatusError" THEN Outcome(g, "StopIteration", itr, <<>>)
        ELSE IF too_vague(parsed.total_hits, itr.limit, g.rl.limit)
             THEN Outcome(g, "RuntimeError", itr, <<>>)
        ELSE IF parsed.hits = <<>> THEN Outcome(g, "StopIteration", it2, <<>>)
        ELSE IF Len(parsed.hits) < itr.limit THEN Outcome(g, "StopIteration", it2, <<>>)
        ELSE Outcome(g, "none", it2, <<parsed>>)

\* A page() that leaves the cursor where __next__ put it.
page_no_restore(itr, number, r, t, resp) ==
    IF number \in DOMAIN itr.page_cache
    THEN [ raised |-> "none", until |-> MinTime, rl |-> r, now |-> t, sent |-> 0,
           status |-> 0, it |-> itr, value |-> <<itr.page_cache[number]>> ]
    ELSE LET n == next([itr EXCEPT !.page = number], r, t, resp)
         IN  [n EXCEPT !.raised = IF n.raised = "StopIteration" THEN "IndexError" ELSE @]

\* SearchIterator.page
page(itr, number, r, t, resp) ==
    IF number \in DOMAIN itr.page_cache
    THEN [ raised |-> "none", until |-> MinTime, rl |-> r, now |-> t, sent |-> 0,
           status |-> 0, it |-> itr, value |-> <<itr.page_cache[number]>> ]
    ELSE LET original_page == itr.page
             n == next([itr EXCEPT !.page = number], r, t, resp)
         IN  [n EXCEPT !.raised = IF n.raised = "StopIteration" THEN "IndexError" ELSE @,
                       !.it = [n.it EXCEPT !.page = original_page]]

(***************************************************************************)
(* Spec: ModrinthAPI with its tracker and one SearchIterator, one thread.  *)
(***************************************************************************)
SearchLimits == {0, 1, 2, 101}
SearchOffsets == {0, 1}
PageNumbers == 0..MaxPage

Concat(seqs) ==
    LET RECURSIVE cat(_)
        cat(i) == IF i > Len(seqs) THEN <<>> ELSE seqs[i] \o cat(i + 1)
    IN  cat(1)

Init ==
    /\ now = StartTime
    /\ rl = Ratelimiter_init(DEFAULT_LIMIT, None, None, StartTime)
    /\ last = NoCall
    /\ \E o \in SearchOffsets, l \in {l \in SearchLimits : limit_valid(l)} :
          it = SearchIterator_init(o, l)
    /\ allpc = "idle" /\ allr = <<>> /\ served = <<>>
    /\ dl = <<>> /\ fs = <<>> /\ sink = <<>> /\ th = <<>> /\ obs = <<>>

\* ModrinthAPI.search_projects: a new iterator replaces the current one.
SearchProjects ==
    /\ allpc = "idle"
    /\ \E o \in SearchOffsets, l \in SearchLimits :
          IF limit_valid(l)
          THEN /\ it' = SearchIterator_init(o, l)
               /\ last' = Call("search_projects", <<o, l>>, "ok", 0, 0, MinTime)
          ELSE /\ it' = it
               /\ last' = Call("search_projects", <<o, l>>, "ValueError", 0, 0, MinTime)
    /\ allr' = <<>> /\ served' = <<>>
    /\ UNCHANGED <<rl, now, allpc, dl, fs, sink, obs, th>>

\* Any operation that is one _get_json call: get_project, get_version,
\* list_project_versions, get_version_from_hash, ...
GetJson ==
    /\ allpc = "idle"
    /\ \E resp \in PlainResponses :
          \E g \in {get_json(rl, now, resp)} :
          /\ rl' = g.rl
          /\ now' = g.now
          /\ last' = Call("get_json", <<>>,
                          IF g.raised = "none" THEN "ok" ELSE g.raised,
                          g.sent, g.status, g.until)
    /\ allr' = <<>> /\ served' = <<>>
    /\ UNCHANGED <<it, allpc, dl, fs, sink, obs, th>>

\* next(iterator): one step of natural iteration.
Advance ==
    /\ allpc = "idle"
    /\ it.page <= MaxPage
    /\ \E resp \in SearchResponses(it.page, it.limit) :
          \E n \in {next(it, rl, now, resp)} :
          /\ rl' = n.rl
          /\ now' = n.now
          /\ it' = n.it
          /\ last' = Call("next", <<>>,
                          IF n.raised = "none" THEN "ok" ELSE n.raised,
                          n.sent, n.status, n.until)
    /\ allr' = <<>> /\ served' = <<>>
    /\ UNCHANGED <<allpc, dl, fs, sink, obs, th>>

\* iterator.page(number).  A cached page is returned without a request, so
\* no response is drawn for it.
Page ==
    /\ allpc = "idle"
    /\ \E number \in PageNumbers :
       \E resp \in IF number \in DOMAIN it.page_cache
                   THEN {Response(200, <<-1, -1, -1>>, 0, 0)}
                   ELSE SearchResponses(number, it.limit) :
          \E n \in {page(it, number, rl, now, resp)} :
          /\ rl' = n.rl
          /\ now' = n.now
          /\ it' = n.it
          /\ last' = Call("page", <<number>>,
                          IF n.raised = "none" THEN "ok" ELSE n.raised,
                          n.sent, n.status, n.until)
    /\ allr' = <<>> /\ served' = <<>>
    /\ UNCHANGED <<allpc, dl, fs, sink, obs, th>>

\* iterator.all(): r = []
AllStart ==
    /\ allpc = "idle"
    /\ it.page <= MaxPage
    /\ allpc' = "running"
    /\ allr' = <<>>
    /\ served' = <<>>
    /\ last' = Call("all", <<>>, "started", 0, 0, MinTime)
    /\ UNCHANGED <<rl, now, it, dl, fs, sink, obs, th>>

\* iterator.all(): one turn of `for page in self: r.extend(page.hits)`.
\* StopIteration ends the loop and all() returns r; any other exception
\* leaves all().  `served` keeps the hits of every page the server served.
AllStep ==
    /\ allpc = "running"
    /\ \E resp \in SearchResponses(it.page, it.limit) :
          \E n \in {next(it, rl, now, resp)} :
          /\ rl' = n.rl
          /\ now' = n.now
          /\ it' = n.it
          /\ allr' = IF n.raised = "none" THEN allr \o n.value[1].hits ELSE allr
          /\ served' = IF n.sent = 1 /\ is_success(n.status)
                       THEN Append(served, Hits(construct_params(it).offset, resp.nhits))
                       ELSE served
          /\ allpc' = IF n.raised = "none" THEN "running" ELSE "idle"
          /\ last' = Call("all", <<>>,
                          CASE n.raised = "none" -> "continue"
                            [] n.raised = "StopIteration" -> "ok"
                            [] OTHER -> n.raised,
                          n.sent, n.status, n.until)
    /\ UNCHANGED <<dl, fs, sink, obs, th>>

Next == Tick \/ SearchProjects \/ GetJson \/ Advance \/ Page \/ AllStart \/ AllStep

Spec == Init /\ [][Next]_vars

(***************************************************************************)
(* class DownloadThread (lib.py).  Bytes are 0 and 1; a body is streamed   *)
(* in chunks.  sha512 is modelled by a small order-sensitive digest that   *)
(* is updated byte by byte, as hashlib does, and that has collisions.      *)
(***************************************************************************)
Workers == {1, 2}
Chunks == { <<0>>, <<1>>, <<1, 0>> }
MaxBody == 2          \* a streamed body has at most MaxBody bytes
ContentLengths == {1, 2}
MAX_ATTEMPTS == 3     \* for i in range(3)
HashMod == 7

sha512_new == 0

RECURSIVE sha512_update(_, _)
sha512_update(h, chunk) ==
    IF chunk = <<>> THEN h
    ELSE sha512_update((3 * h + Head(chunk) + 1) % HashMod, Tail(chunk))

\* hashlib.new("sha512", data).hexdigest()
sha512(bytes) == sha512_update(sha512_new, bytes)

ExpectedHashes == { None, Some(sha512(<<1>>)), Some(sha512(<<0, 1>>)) }

\* A construction that gives every worker the same target path.
DownloadThread_init_one_target(target, hashes, progress) ==
    [ target |-> 1, hashes |-> hashes, progress |-> progress,
      success |-> FALSE,
      pc |-> "start", task_id |-> None, total |-> 0, i |-> 0,
      sha512sum |-> 0,
      attempts |-> 0, mismatches |-> 0, streamed |-> <<>>,
      get_status |-> 0, probes |-> 0, probe_status |-> 0 ]

\* DownloadThread.__init__
DownloadThread_init(target, hashes, progress) ==
    [ target |-> target, hashes |-> hashes, progress |-> progress,
      success |-> FALSE,
      pc |-> "start", task_id |-> None, total |-> 0, i |-> 0,
      sha512sum |-> sha512_new,
      \* observation only:
      attempts |-> 0,        \* stream attempts made
      mismatches |-> 0,      \* attempts whose streamed bytes did not hash to hashes
      streamed |-> <<>>,     \* the bytes streamed in the current attempt
      get_status |-> 0,      \* the status of the current attempt's GET
      probes |-> 0,          \* HEAD requests made
      probe_status |-> 0 ]   \* the status of the HEAD response (0: none yet)

\* open(target, "ab"): the file keeps what it held.
open_ab(file) == IF file = None THEN Some(<<>>) ELSE file

\* target.touch(); open(target, "wb"): the file exists and is empty.
open_wb(file) == Some(<<>>)

\* f.write(chunk)
write(file, chunk) == Some(file[1] \o chunk)

\* range(4)
attempts_left_4(i) == i + 1 < MAX_ATTEMPTS + 1

\* `for i in range(3)`: is there another turn after turn i?
attempts_left(i) == i + 1 < MAX_ATTEMPTS

\* Progress.add_task / Progress.update(task_id, advance=n)
add_task(s, total) == Append(s, [total |-> total, completed |-> 0])
advance(s, task_id, n) == [s EXCEPT ![task_id].completed = @ + n]

\* Worker 1 is given any expected hash and progress sink; its target may
\* already exist.  Worker 2 is constructed and not started.
DlInit ==
    /\ now = StartTime
    /\ rl = Ratelimiter_init(DEFAULT_LIMIT, None, None, StartTime)
    /\ last = NoCall
    /\ it = IdleIterator
    /\ allpc = "idle" /\ allr = <<>> /\ served = <<>>
    /\ \E h \in ExpectedHashes, p \in BOOLEAN :
          dl = [w \in Workers |->
                  IF w = 1 THEN DownloadThread_init(w, h, p)
                           ELSE DownloadThread_init(w, None, FALSE)]
    /\ \E old \in {None, Some(<<1>>)} : fs = [w \in Workers |-> old]
    /\ sink = <<>> /\ th = <<>> /\ obs = <<>>

\* lib.py:56-62: the metadata probe.
DlProbe(w) ==
    /\ dl[w].pc = "start"
    /\ \E status \in {200, 404, 500}, length \in ContentLengths :
          IF ~is_success(status)
          THEN /\ dl' = [dl EXCEPT ![w].pc = "HTTPStatusError",
                                   ![w].probes = @ + 1,
                                   ![w].probe_status = status]
               /\ sink' = sink
          ELSE /\ dl' = [dl EXCEPT ![w].pc = "attempt",
                                   ![w].probes = @ + 1,
                                   ![w].probe_status = status,
                                   ![w].total = length,
                                   ![w].i = 0,
                                   ![w].task_id = IF dl[w].progress
                                                  THEN Some(Len(sink) + 1) ELSE None]
               /\ sink' = IF dl[w].progress THEN add_task(sink, length) ELSE sink
    /\ UNCHANGED <<rl, now, last, it, allpc, allr, served, fs, obs, th>>

\* lib.py:65-68: a new digest, the streaming GET (its status is not looked
\* at), and the target opened for writing.
DlOpen(w) ==
    /\ dl[w].pc = "attempt"
    /\ \E status \in {200, 404} :
          dl' = [dl EXCEPT ![w].pc = "streaming",
                           ![w].sha512sum = sha512_new,
                           ![w].attempts = @ + 1,
                           ![w].streamed = <<>>,
                           ![w].get_status = status]
    /\ fs' = [fs EXCEPT ![dl[w].target] = open_wb(@)]
    /\ UNCHANGED <<rl, now, last, it, allpc, allr, served, sink, obs, th>>

\* lib.py:69-73: one chunk of the body.
DlChunk(w) ==
    /\ dl[w].pc = "streaming"
    /\ \E chunk \in Chunks :
          /\ Len(dl[w].streamed) + Len(chunk) <= MaxBody
          /\ dl' = [dl EXCEPT ![w].sha512sum = sha512_update(@, chunk),
                              ![w].streamed = @ \o chunk]
          /\ fs' = [fs EXCEPT ![dl[w].target] = write(@, chunk)]
          /\ sink' = IF dl[w].progress
                     THEN advance(sink, dl[w].task_id[1], Len(chunk))
                     ELSE sink
    /\ UNCHANGED <<rl, now, last, it, allpc, allr, served, obs, th>>

\* lib.py:74-84: the body is complete; verify, retry or give up.
DlVerify(w) ==
    /\ dl[w].pc = "streaming"
    /\ LET d == dl[w]
           mis == IF d.hashes # None /\ sha512(d.streamed) # d.hashes[1]
                  THEN d.mismatches + 1 ELSE d.mismatches
       IN  dl' = [dl EXCEPT ![w] =
                 IF d.hashes = None
                 THEN [d EXCEPT !.pc = "done"]
                 ELSE IF d.sha512sum # d.hashes[1]
                 THEN IF attempts_left(d.i)
                      THEN [d EXCEPT !.pc = "attempt", !.i = d.i + 1, !.mismatches = mis]
                      ELSE [d EXCEPT !.pc = "RuntimeError", !.mismatches = mis]
                 ELSE [d EXCEPT !.pc = "done", !.mismatches = mis]]
    /\ UNCHANGED <<rl, now, last, it, allpc, allr, served, fs, sink, obs, th>>

DlRun(w) == DlProbe(w) \/ DlOpen(w) \/ DlChunk(w) \/ DlVerify(w)

DlNext == DlRun(1)

SpecDl == DlInit /\ [][DlNext]_vars

(***************************************************************************)
(* SpecDl2: two workers started together on distinct targets, their steps  *)
(* interleaved in any order.  Each worker has its own httpx.Client; the    *)
(* progress sink, when given, is the one object they share.  Worker 1 is   *)
(* given an expected hash, so that it can retry and fail on it; worker 2   *)
(* has none, and can fail on its probe.                                    *)
(***************************************************************************)
Dl2Init ==
    /\ now = StartTime
    /\ rl = Ratelimiter_init(DEFAULT_LIMIT, None, None, StartTime)
    /\ last = NoCall
    /\ it = IdleIterator
    /\ allpc = "idle" /\ allr = <<>> /\ served = <<>>
    /\ \E p \in BOOLEAN :
          dl = [w \in Workers |->
                  DownloadThread_init(w, IF w = 1 THEN Some(sha512(<<1>>)) ELSE None, p)]
    /\ fs = [w \in Workers |-> None]
    /\ sink = <<>> /\ th = <<>> /\ obs = <<>>

Dl2Next == \E w \in Workers : DlRun(w)

SpecDl2 == Dl2Init /\ [][Dl2Next]_vars

(***************************************************************************)
(* ModrinthAPI.construct_facets.  A keyword name is the sequence of its    *)
(* parts between "__" (downloads__gte is <<"downloads", "gte">>); a value  *)
(* is a str or an int, an int being written as its decimal text; a string  *)
(* the function builds is the sequence of the pieces it joins.  The result *)
(* of a call:                                                              *)
(*   raised  "none" or the exception                                       *)
(*   value   <<>> or <<the list of lists returned>>                        *)
(***************************************************************************)
MaxKwargs == 2    \* keyword arguments in one construct_facets call

ops == ("gt" :> ">") @@ ("lt" :> "<") @@ ("ne" :> "!=") @@ ("eq" :> ":")
       @@ ("gte" :> ">=") @@ ("lte" :> "<=")

StrVal(s) == [t |-> "str", v |-> s]
IntVal(text) == [t |-> "int", v |-> text]

\* The text of a name: its parts with "__" between them.
RECURSIVE join_parts(_)
join_parts(parts) ==
    IF Len(parts) <= 1 THEN parts
    ELSE <<Head(parts), "__">> \o join_parts(Tail(parts))

\* key.rsplit("__", 1): one element when the name has no "__", else two.
rsplit(key) ==
    IF Len(key) = 1 THEN <<key>>
    ELSE <<SubSeq(key, 1, Len(key) - 1), key[Len(key)]>>

\* field, op = key.rsplit("__", 1), with the ValueError of a one-element
\* unpacking caught: field, op = key, "eq".
parse_key(key) ==
    LET p == rsplit(key) IN
    IF Len(p) = 2 THEN [field |-> p[1], op |-> p[2]]
    ELSE [field |-> key, op |-> "eq"]

\* mapping.setdefault(field, []); mapping[field].append(item).  The dict
\* is the sequence of its entries in insertion order.
setdefault_append(mapping, field, item) ==
    IF \E g \in DOMAIN mapping : mapping[g].field = field
    THEN [g \in DOMAIN mapping |->
            IF mapping[g].field = field
            THEN [mapping[g] EXCEPT !.values = Append(@, item)]
            ELSE mapping[g]]
    ELSE Append(mapping, [field |-> field, values |-> <<item>>])

\* The first loop: "KeyError" at the first name whose suffix is no operator.
RECURSIVE build_mapping(_, _)
build_mapping(kwargs, mapping) ==
    IF kwargs = <<>> THEN [raised |-> "none", mapping |-> mapping]
    ELSE LET k == parse_key(Head(kwargs)[1]) IN
         IF k.op \notin DOMAIN ops
         THEN [raised |-> "KeyError", mapping |-> mapping]
         ELSE build_mapping(Tail(kwargs),
                  setdefault_append(mapping, k.field,
                      [symbol |-> ops[k.op], value |-> Head(kwargs)[2]]))

\* "".join([key, symbol, value]) needs every piece to be a str.
joinable(item) == item.value.t = "str"
str_join(field, item) == join_parts(field) \o <<item.symbol, item.value.v>>

construct_facets(kwargs) ==
    LET m == build_mapping(kwargs, <<>>) IN
    IF m.raised # "none" THEN [raised |-> m.raised, value |-> None]
    ELSE IF \E g \in DOMAIN m.mapping :
               \E j \in DOMAIN m.mapping[g].values : ~joinable(m.mapping[g].values[j])
    THEN [raised |-> "TypeError", value |-> None]
    ELSE [raised |-> "none",
          value  |-> Some([g \in DOMAIN m.mapping |->
                             [j \in DOMAIN m.mapping[g].values |->
                                 str_join(m.mapping[g].field, m.mapping[g].values[j])]])]

\* The calls made of construct_facets.
FacetFields == {"versions", "categories"}
FacetKeys ==
    { <<f>> : f \in FacetFields }
    \cup { <<f, o>> : f \in FacetFields, o \in (DOMAIN ops) \cup {"in"} }
    \cup { <<"project", "type", "ne">> }
FacetValues == { StrVal("1.20.1"), IntVal("100") }
Kwargs ==
    UNION { { kw \in [1..n -> FacetKeys \X FacetValues] :
                \A i, j \in 1..n : i # j => kw[i][1] # kw[j][1] } : n \in 1..MaxKwargs }

(***************************************************************************)
(* models.Version: ordering and primary_file.  A date is an integer; a     *)
(* file is known by its position in the list the server sent.              *)
(***************************************************************************)
MaxDate == 2      \* publication dates are 1..MaxDate
MaxFiles == 3     \* files of one version

VersionTypes == {"alpha", "beta", "release"}

\* VersionType.__int__: ["alpha", "beta", "release"].index(self.value)
VersionType_int(vt) == CASE vt = "alpha" -> 0 [] vt = "beta" -> 1 [] vt = "release" -> 2

CompareOps == {">", ">=", "<", "<="}

\* x <op> y on two datetimes.
datetime_compare(op, x, y) ==
    CASE op = ">"  -> x > y
      [] op = ">=" -> x >= y
      [] op = "<"  -> x < y
      [] op = "<=" -> x <= y

\* x <op> y on two different members of VersionType: enum.Enum has no
\* ordering methods and the class defines only __int__, so both operands
\* answer NotImplemented and the comparison raises.
VersionType_compare(op, x, y) == [raised |-> "TypeError", value |-> None]

\* (a1, a2) <op> (b1, b2) as Python compares tuples: the first position
\* where the two differ (by ==) decides, with <op> applied to its elements;
\* tuples equal throughout compare as equal lengths do.
tuple_compare(op, a, b) ==
    IF a[1] # b[1] THEN VersionType_compare(op, a[1], b[1])
    ELSE IF a[2] # b[2]
    THEN [raised |-> "none", value |-> Some(datetime_compare(op, a[2], b[2]))]
    ELSE [raised |-> "none", value |-> Some(op \in {">=", "<="})]

\* Version.__gt__ / __ge__ / __lt__ / __le__
Version_compare(op, self, other) ==
    tuple_compare(op, <<self.version_type, self.date_published>>,
                      <<other.version_type, other.date_published>>)

\* A primary_file that takes the first file whatever the flags say.
primary_file_ignores_flag(files) ==
    IF files = <<>> THEN [raised |-> "IndexError", value |-> None]
    ELSE [raised |-> "none", value |-> Some(files[1])]

\* Version.primary_file
primary_file(files) ==
    IF \E i \in DOMAIN files : files[i].primary
    THEN LET i == CHOOSE i \in DOMAIN files :
                     /\ files[i].primary
                     /\ \A j \in 1..(i - 1) : ~files[j].primary
         IN [raised |-> "none", value |-> Some(files[i])]
    ELSE IF files = <<>> THEN [raised |-> "IndexError", value |-> None]
    ELSE [raised |-> "none", value |-> Some(files[1])]

Versions ==
    [ version_type : VersionTypes, date_published : 1..MaxDate ]
FileLists ==
    UNION { { [i \in 1..n |-> [position |-> i, primary |-> flags[i]]] :
                flags \in [1..n -> BOOLEAN] } : n \in 0..MaxFiles }

(***************************************************************************)
(* SpecPure: Init draws a call of one of the pure functions, the call's    *)
(* action applies it; obs is the value returned (None: pending or raised). *)
(***************************************************************************)
Pending(op, args) == Call(op, args, "pending", 0, 0, MinTime)

PureInit ==
    /\ now = StartTime
    /\ rl = Ratelimiter_init(DEFAULT_LIMIT, None, None, StartTime)
    /\ \/ \E kw \in Kwargs : last = Pending("construct_facets", kw)
       \/ \E op \in CompareOps, a \in Versions, b \in Versions :
             last = Pending("Version.compare", <<op, a, b>>)
       \/ \E files \in FileLists : last = Pending("primary_file", files)
    /\ it = IdleIterator
    /\ allpc = "idle" /\ allr = <<>> /\ served = <<>>
    /\ dl = <<>> /\ fs = <<>> /\ sink = <<>> /\ th = <<>> /\ obs = <<>>

\* The call returns r.
Return(r) ==
    /\ last' = [last EXCEPT !.outcome = IF r.raised = "none" THEN "ok" ELSE r.raised]
    /\ obs' = r.value
    /\ UNCHANGED <<rl, now, it, allpc, allr, served, dl, fs, sink, th>>

CallConstructFacets ==
    /\ last.op = "construct_facets" /\ last.outcome = "pending"
    /\ \E r \in {construct_facets(last.args)} : Return(r)

CallVersionCompare ==
    /\ last.op = "Version.compare" /\ last.outcome = "pending"
    /\ \E r \in {Version_compare(last.args[1], last.args[2], last.args[3])} : Return(r)

CallPrimaryFile ==
    /\ last.op = "primary_file" /\ last.outcome = "pending"
    /\ \E r \in {primary_file(last.args)} : Return(r)

PureNext == CallConstructFacets \/ CallVersionCompare \/ CallPrimaryFile

SpecPure == PureInit /\ [][PureNext]_vars

(***************************************************************************)
(* SpecDrain: one natural iteration (`for page in iterator`, which is what *)
(* all() runs) against a server that holds `total` items, reports that     *)
(* total on every page and serves the pages that go with it.  obs holds    *)
(* the server's total and the offsets it was asked for, served the hits of *)
(* each request it answered.                                               *)
(***************************************************************************)
MaxTotal == 6       \* the server holds 0..MaxTotal items
MaxRlLimit == 3     \* the tracker's limit is 1..MaxRlLimit

Min(a, b) == IF a < b THEN a ELSE b

\* The number of hits the server has for the page at `offset`.
HitsAt(total, offset, limit) ==
    IF offset >= total THEN 0 ELSE Min(limit, total - offset)

\* Headers that leave the tracker's limit alone and do not exhaust it.
QuietHeaders == { h \in Headers : h[1] < 0 /\ h[2] # 0 }

DrainInit ==
    /\ now = StartTime
    /\ \E L \in 1..MaxRlLimit : rl = Ratelimiter_init(L, None, None, StartTime)
    /\ last = NoCall
    /\ \E o \in SearchOffsets, l \in {1, 2} : it = SearchIterator_init(o, l)
    /\ allpc = "idle" /\ allr = <<>> /\ served = <<>>
    /\ dl = <<>> /\ fs = <<>> /\ sink = <<>> /\ th = <<>>
    /\ \E total \in 0..MaxTotal : obs = Some([total |-> total, asked |-> <<>>])

\* The for loop calls __next__ until it raises.
DrainNext ==
    /\ last.outcome = "ok"
    /\ \E h \in QuietHeaders :
        LET p == construct_params(it) IN
        \E n \in {next(it, rl, now,
                       Response(200, h, HitsAt(obs[1].total, p.offset, p.limit),
                                obs[1].total))} :
            /\ rl' = n.rl
            /\ it' = n.it
            /\ last' = Call("next", <<>>, IF n.raised = "none" THEN "ok" ELSE n.raised,
                            n.sent, n.status, n.until)
            /\ served' = IF n.sent = 1
                         THEN Append(served,
                                  Hits(p.offset, HitsAt(obs[1].total, p.offset, p.limit)))
                         ELSE served
            /\ obs' = IF n.sent = 1
                      THEN Some([obs[1] EXCEPT !.asked = Append(@, p.offset)])
                      ELSE obs
    /\ UNCHANGED <<now, allpc, allr, dl, fs, sink, th>>

SpecDrain == DrainInit /\ [][DrainNext]_vars

(***************************************************************************)
(* SpecThreads: two threads calling _get on one ModrinthAPI.  The code     *)
(* holds no lock, so a thread can be switched out between the statements   *)
(* of _get and of Ratelimiter.sync:                                        *)
(*   idle -> (are_ratelimited) -> send -> (client.get) -> limit ->         *)
(*   remaining -> reset -> last_hit -> idle                                *)
(* A thread's record:                                                      *)
(*   pc       the statement it is about to run                             *)
(*   resp     the response its request got                                 *)
(*   calls    the calls it has finished or had refused            (obs.)   *)
(*   blind    its request went out while the tracker was exhausted (obs.)  *)
(*   crossed  the other thread wrote the tracker during its call   (obs.)  *)
(***************************************************************************)
Threads == {1, 2}
MaxCalls == 2       \* calls made by one thread

\* The server sends all three ratelimit headers.
ThreadHeaders == { <<1, 0, 1>>, <<2, 1, 0>> }
NoResponse == Response(0, <<-1, -1, -1>>, 0, 0)

Thread_init == [ pc |-> "idle", resp |-> NoResponse, calls |-> 0,
                 blind |-> FALSE, crossed |-> FALSE ]

\* An assignment of sync that takes a zero for the unknown sentinel.
sync_remaining_skips_zero(r, remaining) ==
    IF remaining > 0 THEN [r EXCEPT !.remaining = remaining] ELSE r

\* The four statements of Ratelimiter.sync.
sync_limit(r, limit) == IF limit >= 0 THEN [r EXCEPT !.limit = limit] ELSE r
sync_remaining(r, remaining) ==
    IF remaining >= 0 THEN [r EXCEPT !.remaining = remaining] ELSE r
sync_reset(r, reset) == IF reset >= 0 THEN [r EXCEPT !.reset = reset] ELSE r
sync_last_hit(r, t) == [r EXCEPT !.last_hit = t]

ThreadsInit ==
    /\ now = StartTime
    /\ rl = Ratelimiter_init(DEFAULT_LIMIT, None, None, StartTime)
    /\ last = NoCall
    /\ it = IdleIterator
    /\ allpc = "idle" /\ allr = <<>> /\ served = <<>>
    /\ dl = <<>> /\ fs = <<>> /\ sink = <<>> /\ obs = <<>>
    /\ th = [t \in Threads |-> Thread_init]

\* Thread t writes the tracker: every other thread inside a call is crossed.
Cross(t, threads) ==
    [u \in Threads |->
        IF u # t /\ threads[u].pc # "idle"
        THEN [threads[u] EXCEPT !.crossed = TRUE] ELSE threads[u]]

\* api.py:211-212: the check, and the raise.
ThCheck(t) ==
    /\ th[t].pc = "idle" /\ th[t].calls < MaxCalls
    /\ IF are_ratelimited(rl, now)
       THEN /\ th' = [th EXCEPT ![t].calls = @ + 1]
            /\ last' = Call("_get", <<t>>, "Ratelimited", 0, 0, reset_at(rl))
       ELSE /\ th' = [th EXCEPT ![t] = [Thread_init EXCEPT !.pc = "send",
                                                          !.calls = th[t].calls]]
            /\ last' = Call("_get", <<t>>, "checked", 0, 0, MinTime)
    /\ UNCHANGED <<rl, now, it, allpc, allr, served, dl, fs, sink, obs>>

\* api.py:213: the request goes out and is answered.
ThSend(t) ==
    /\ th[t].pc = "send"
    /\ \E h \in ThreadHeaders :
          th' = [th EXCEPT ![t].pc = "limit",
                           ![t].resp = Response(200, h, 0, 0),
                           ![t].blind = are_ratelimited(rl, now)]
    /\ last' = Call("_get", <<t>>, "sent", 1, 200, MinTime)
    /\ UNCHANGED <<rl, now, it, allpc, allr, served, dl, fs, sink, obs>>

\* api.py:214-218 and 53-60: sync, one assignment at a time.
ThSync(t) ==
    /\ th[t].pc \in {"limit", "remaining", "reset", "last_hit"}
    /\ rl' = CASE th[t].pc = "limit"     -> sync_limit(rl, th[t].resp.hlimit)
                [] th[t].pc = "remaining" -> sync_remaining(rl, th[t].resp.hremaining)
                [] th[t].pc = "reset"     -> sync_reset(rl, th[t].resp.hreset)
                [] th[t].pc = "last_hit"  -> sync_last_hit(rl, now)
    /\ th' = [Cross(t, th) EXCEPT
                ![t].pc = CASE th[t].pc = "limit"     -> "remaining"
                            [] th[t].pc = "remaining" -> "reset"
                            [] th[t].pc = "reset"     -> "last_hit"
                            [] th[t].pc = "last_hit"  -> "idle",
                ![t].calls = IF th[t].pc = "last_hit" THEN @ + 1 ELSE @]
    /\ last' = Call("_get", <<t>>, IF th[t].pc = "last_hit" THEN "ok" ELSE "syncing",
                    0, 0, MinTime)
    /\ UNCHANGED <<now, it, allpc, allr, served, dl, fs, sink, obs>>

ThreadsNext == Tick \/ \E t \in Threads : ThCheck(t) \/ ThSend(t) \/ ThSync(t)

SpecThreads == ThreadsInit /\ [][ThreadsNext]_vars

(***************************************************************************)
(* Properties of the download worker, under SpecDl.                        *)
(***************************************************************************)
\* C2: a worker given an expected hash that finishes without error leaves
\* in the target exactly the bytes streamed in its final attempt, and the
\* digest it compared is the digest of those bytes and equals the expected.
C2_FileIsFinalAttempt ==
    \A w \in Workers :
        (dl[w].pc = "done" /\ dl[w].hashes # None) =>
            /\ fs[dl[w].target] = Some(dl[w].streamed)
            /\ dl[w].sha512sum = sha512(dl[w].streamed)
            /\ sha512(fs[dl[w].target][1]) = dl[w].hashes[1]

C2_Witness ==
    /\ dl[1].pc = "done" /\ dl[1].hashes # None
    /\ dl[1].attempts >= 2
    /\ Len(dl[1].streamed) = 2
    /\ fs[1] = Some(dl[1].streamed)

\* C3: k mismatches then a match end the worker without error after k+1
\* attempts (k <= 2); three mismatches end it with the integrity error
\* after exactly 3 attempts; without an expected hash it takes 1 attempt.
C3_AttemptBudget ==
    \A w \in Workers :
        LET d == dl[w] IN
        /\ d.attempts <= MAX_ATTEMPTS
        /\ (d.pc = "done" /\ d.hashes # None) =>
              (d.attempts = d.mismatches + 1 /\ d.mismatches <= 2)
        /\ (d.pc = "done" /\ d.hashes = None) => d.attempts = 1
        /\ d.pc = "RuntimeError" => (d.attempts = 3 /\ d.mismatches = 3)
        /\ (d.mismatches = 3 /\ d.pc # "streaming") => d.pc = "RuntimeError"

C3_Witness ==
    /\ dl[1].pc = "done" /\ dl[1].hashes # None
    /\ dl[1].attempts = 3 /\ dl[1].mismatches = 2

\* C4: the success flag is true when the worker ends without error and
\* false when it ends with an error.
C4_SuccessFlag ==
    \A w \in Workers :
        /\ dl[w].pc = "done" => dl[w].success = TRUE
        /\ dl[w].pc \in {"HTTPStatusError", "RuntimeError"} => dl[w].success = FALSE

(***************************************************************************)
(* Properties of the client and the search iterator, under Spec.           *)
(***************************************************************************)
\* Spec section 3: Exhausted <=> now() < resetAt AND remaining == 0.
Exhausted(r, t) == t < reset_at(r) /\ r.remaining = 0

\* The step is a call that needs the network: every client operation, and
\* every search call but a page() answered from the cache.
FetchStep ==
    \/ last'.op \in {"get_json", "next"}
    \/ last'.op = "all" /\ last'.outcome # "started"
    \/ last'.op = "page" /\ last'.args[1] \notin DOMAIN it.page_cache

SearchStep == last'.op \in {"next", "page", "all"}

\* C1: a call made while the tracker is exhausted raises Ratelimited with
\* the tracker's reset_at and sends nothing; no request is ever sent from a
\* state in which the tracker is exhausted.
C1_FailFast ==
    [][ /\ (last'.sent > 0 => ~Exhausted(rl, now))
        /\ (FetchStep /\ Exhausted(rl, now) =>
               /\ last'.outcome = "Ratelimited"
               /\ last'.until = reset_at(rl)
               /\ last'.sent = 0) ]_vars

C1_Witness ==
    /\ last.op = "get_json"
    /\ last.outcome = "Ratelimited"
    /\ last.sent = 0
    /\ Exhausted(rl, now)
    /\ last.until = reset_at(rl)

\* C5: when all() was served full pages followed by one short, non-empty
\* page, it returns the hits of every page served, the short one included.
ShortLastPage ==
    /\ served # <<>>
    /\ \A i \in 1..(Len(served) - 1) : Len(served[i]) = it.limit
    /\ Len(served[Len(served)]) \in 1..(it.limit - 1)

C5_AllReturnsEveryPage ==
    ( /\ last.op = "all" /\ last.outcome = "ok" /\ is_success(last.status)
      /\ ShortLastPage )
    => allr = Concat(served)

\* C6: page(n) leaves the cursor where it was, whatever the outcome.
C6_PageKeepsCursor ==
    [][ last'.op = "page" => it'.page = it.page ]_vars

C6_Witness ==
    /\ last.op = "page" /\ last.outcome = "ok" /\ last.sent = 1
    /\ last.args[1] \in DOMAIN it.page_cache
    /\ it.page # last.args[1] + 1

\* C7: a search call whose page was served (2xx) and that did not raise the
\* too-broad error saw total_hits / limit <= ratelimiter.limit; so a response
\* with total_hits / limit > ratelimiter.limit always raises it, and the call
\* that raises it caches nothing and records no total.
C7_BudgetCheck ==
    [][ SearchStep =>
          /\ ( /\ last'.sent = 1 /\ is_success(last'.status)
               /\ last'.outcome # "RuntimeError" )
             => it'.total_hits <= rl'.limit * it.limit
          /\ last'.outcome = "RuntimeError"
             => /\ last'.sent = 1 /\ is_success(last'.status)
                /\ it'.page_cache = it.page_cache
                /\ it'.total_hits = it.total_hits ]_vars

C7_Witness ==
    /\ last.op = "next" /\ last.outcome = "RuntimeError"
    /\ it.page_cache = EmptyCache
    /\ it.total_hits = INITIAL_TOTAL_HITS
    /\ rl.limit = DEFAULT_LIMIT

C9_HttpFailureEndsSequence ==
    [][ (SearchStep /\ last'.sent = 1 /\ ~is_success(last'.status)) =>
          /\ it' = it
          /\ last'.op = "next" => last'.outcome = "StopIteration"
          /\ last'.op = "page" => last'.outcome = "IndexError"
          /\ last'.op = "all" =>
                /\ last'.outcome = "ok"
                /\ allpc' = "idle"
                /\ allr' = allr
                /\ allr' = Concat(served') ]_vars

C9_Witness ==
    /\ last.op = "all" /\ last.outcome = "ok" /\ last.sent = 1
    /\ ~is_success(last.status)
    /\ Len(served) >= 1
    /\ allr = Concat(served)
    /\ allpc = "idle"

(***************************************************************************)
(* Properties of the Ratelimiter, under SpecTracker.                       *)
(***************************************************************************)
\* C10: sync treats the three fields independently: a negative argument
\* leaves the field, a non-negative one (0 included) overwrites it; and every
\* sync stamps last_hit with the current time.
C10_SyncFields ==
    [][ last'.op = "sync" =>
          LET a == last'.args IN
          /\ rl'.limit     = (IF a[1] < 0 THEN rl.limit ELSE a[1])
          /\ rl'.remaining = (IF a[2] < 0 THEN rl.remaining ELSE a[2])
          /\ rl'.reset     = (IF a[3] < 0 THEN rl.reset ELSE a[3])
          /\ rl'.last_hit  = now' ]_vars

C10_Witness ==
    /\ last.op = "sync"
    /\ last.args = <<-1, -2, -1>>
    /\ rl.last_hit = now /\ now > StartTime
    /\ rl.limit = DEFAULT_LIMIT

\* C11: are_ratelimited answers true when the budget is 0 and the window
\* has not ended (now < reset_at), and false whenever the budget is positive.
C11_RatelimitedAnswer ==
    last.op = "are_ratelimited" =>
        /\ (rl.remaining = 0 /\ now < reset_at(rl) => last.outcome = "True")
        /\ (rl.remaining > 0 => last.outcome = "False")

C11_Witness ==
    /\ last.op = "are_ratelimited" /\ last.outcome = "True"
    /\ rl.remaining = 0 /\ now < reset_at(rl)
    /\ rl.last_hit > MinTime

\* C12: are_ratelimited answers true exactly when now < reset_at and the
\* budget is 0; at now = reset_at the window has ended and the answer is
\* false.
C12_ExhaustedExactly ==
    last.op = "are_ratelimited" =>
        (last.outcome = "True" <=> (now < reset_at(rl) /\ rl.remaining = 0))

\* C13: the tracker's remaining budget is never negative, whatever the
\* constructor and sync were given.
C13_RemainingNonNegative == rl.remaining >= 0

(***************************************************************************)
(* Properties of the client and its tracker, under SpecClient.             *)
(***************************************************************************)
\* What the tracker must hold once the response resp, received at t, has
\* been read: a header that is present overwrites, an absent one (-1) keeps.
SyncedFrom(r, resp, t) ==
    [ limit     |-> IF resp.hlimit < 0 THEN r.limit ELSE resp.hlimit,
      remaining |-> IF resp.hremaining < 0 THEN r.remaining ELSE resp.hremaining,
      reset     |-> IF resp.hreset < 0 THEN r.reset ELSE resp.hreset,
      last_hit  |-> t ]

\* Every response a call receives, 2xx or not, has been synchronised into
\* the tracker when the call ends, and a non-2xx one ends it with the HTTP
\* error.
SyncOnEveryResponse ==
    last'.sent = 1 =>
        /\ obs' # None
        /\ rl' = SyncedFrom(rl, obs'[1], now')
        /\ (~is_success(obs'[1].status) => last'.outcome = "HTTPStatusError")
        /\ (is_success(obs'[1].status) => last'.outcome = "ok")

\* The previous call received a non-2xx response reporting remaining = 0.
ErrorReportedZero ==
    obs # None /\ ~is_success(obs[1].status) /\ obs[1].hremaining = 0

\* C14 as stated: the tracker is synchronised from every response, 2xx or
\* not, before the call ends; so after a non-2xx response that reports
\* remaining = 0 the very next call fails with Ratelimited, whenever made.
C14_SyncThenRatelimited ==
    [][ last'.op = "get_json" =>
          /\ SyncOnEveryResponse
          /\ (ErrorReportedZero => last'.outcome = "Ratelimited") ]_vars

\* C14 amended: the tracker is synchronised from every response, 2xx or
\* not, before the call ends; after a non-2xx response that reports
\* remaining = 0 the very next call fails with Ratelimited if it is made no
\* later than reset_at, and is sent to the server if it is made after it.
C14_SyncThenRatelimitedInWindow ==
    [][ last'.op = "get_json" =>
          /\ SyncOnEveryResponse
          /\ (ErrorReportedZero /\ now <= reset_at(rl)
                 => last'.outcome = "Ratelimited" /\ last'.sent = 0 /\ rl' = rl)
          /\ (ErrorReportedZero /\ now > reset_at(rl) => last'.sent = 1) ]_vars

C14_Witness ==
    /\ last.op = "get_json" /\ last.outcome = "HTTPStatusError" /\ last.sent = 1
    /\ ErrorReportedZero
    /\ rl.remaining = 0 /\ rl.last_hit = now /\ now < reset_at(rl)

(***************************************************************************)
(* Properties of the pure functions, under SpecPure.                       *)
(***************************************************************************)
\* The documented table of operator suffixes.
Symbol(op) ==
    CASE op = "gt" -> ">" [] op = "lt" -> "<" [] op = "ne" -> "!="
      [] op = "eq" -> ":" [] op = "gte" -> ">=" [] op = "lte" -> "<="

\* A keyword name the documentation covers: no suffix, or one of the six.
HasSuffix(key) == Len(key) >= 2
Covered(key) == HasSuffix(key) => key[Len(key)] \in {"gt", "lt", "ne", "eq", "gte", "lte"}
FieldOf(key) == IF HasSuffix(key) THEN SubSeq(key, 1, Len(key) - 1) ELSE key

\* The string documented for one argument: field + symbol + value.
FacetString(arg) ==
    join_parts(FieldOf(arg[1]))
    \o << IF HasSuffix(arg[1]) THEN Symbol(arg[1][Len(arg[1])]) ELSE ":" >>
    \o << arg[2].v >>

FacetsReturned == last.op = "construct_facets" /\ last.outcome # "pending"

\* C15: construct_facets called with several distinct fields (string
\* values, documented suffixes) returns a single group: one inner list
\* holding one field-symbol-value string per argument, in argument order.
C15_DistinctFieldsOneGroup ==
    ( /\ FacetsReturned
      /\ \A i \in DOMAIN last.args :
            Covered(last.args[i][1]) /\ last.args[i][2].t = "str"
      /\ \A i, j \in DOMAIN last.args :
            i # j => FieldOf(last.args[i][1]) # FieldOf(last.args[j][1]) )
    => /\ last.outcome = "ok"
       /\ obs = Some(<< [i \in DOMAIN last.args |-> FacetString(last.args[i])] >>)

\* C16: every argument named field__op with a documented op, or with no
\* suffix, and a string or an integer value, yields the string
\* field + symbol + value in the result.
C16_SuffixSymbols ==
    ( /\ FacetsReturned
      /\ \A i \in DOMAIN last.args : Covered(last.args[i][1]) )
    => /\ last.outcome = "ok"
       /\ \A i \in DOMAIN last.args :
             \E g \in DOMAIN obs[1] : \E j \in DOMAIN obs[1][g] :
                 obs[1][g][j] = FacetString(last.args[i])

\* alpha < beta < release
Rank(vt) == CASE vt = "alpha" -> 0 [] vt = "beta" -> 1 [] vt = "release" -> 2

\* (type, date) of a against (type, date) of b, lexicographically.
LexGreater(a, b) ==
    \/ Rank(a.version_type) > Rank(b.version_type)
    \/ a.version_type = b.version_type /\ a.date_published > b.date_published

\* C17: versions are ordered by (version_type, date_published) compared
\* lexicographically with alpha < beta < release: a RELEASE published
\* before a BETA is still greater than it, a > b and b < a both answering
\* true.
C17_TypeDominatesDate ==
    (last.op = "Version.compare" /\ last.outcome # "pending") =>
        LET op == last.args[1]
            a  == last.args[2]
            b  == last.args[3]
        IN /\ (op = ">" => last.outcome = "ok" /\ obs = Some(LexGreater(a, b)))
           /\ (op = "<" => last.outcome = "ok" /\ obs = Some(LexGreater(b, a)))

Flagged(files) == {i \in DOMAIN files : files[i].primary}

\* C18: primary_file returns the flagged file when exactly one file is
\* flagged, and the first file of the list when none is.
C18_PrimaryFile ==
    (last.op = "primary_file" /\ last.outcome # "pending") =>
        /\ (Cardinality(Flagged(last.args)) = 1 =>
              /\ last.outcome = "ok"
              /\ \E i \in Flagged(last.args) : obs = Some(last.args[i]))
        /\ (Flagged(last.args) = {} /\ last.args # <<>> =>
              /\ last.outcome = "ok"
              /\ obs = Some(last.args[1]))

C18_Witness ==
    /\ last.op = "primary_file" /\ last.outcome = "ok"
    /\ Len(last.args) = MaxFiles
    /\ Flagged(last.args) = {2}
    /\ obs = Some(last.args[2])

(***************************************************************************)
(* Properties of search_projects, under Spec.                              *)
(***************************************************************************)
\* C19: search_projects is lazy and validates its page size: a limit
\* outside 1..100 ends in ValueError and leaves the current iterator, a
\* limit inside 1..100 returns a fresh iterator (empty cache, cursor at
\* offset div limit); either way it sends no request and leaves the
\* tracker and the clock as they were.
C19_SearchIsLazy ==
    [][ last'.op = "search_projects" =>
          LET o == last'.args[1]
              l == last'.args[2]
          IN /\ last'.sent = 0 /\ last'.status = 0
             /\ rl' = rl /\ now' = now
             /\ (l < 1 \/ l > 100 => last'.outcome = "ValueError" /\ it' = it)
             /\ (l >= 1 /\ l <= 100 =>
                   /\ last'.outcome = "ok"
                   /\ it'.limit = l /\ it'.offset = o
                   /\ it'.page = o \div l
                   /\ it'.page_cache = EmptyCache) ]_vars

C19_Witness ==
    /\ last.op = "search_projects" /\ last.outcome = "ok"
    /\ last.args = <<1, 2>>
    /\ it.page_cache = EmptyCache /\ it.page = 0
    /\ rl.last_hit > MinTime /\ rl.remaining < DEFAULT_LIMIT

(***************************************************************************)
(* Properties of the download worker's probe, under SpecDl.                *)
(***************************************************************************)
\* The worker's HEAD probe has been answered with a status outside 2xx.
ProbeFailed(d) == d.probes >= 1 /\ (d.probe_status < 200 \/ d.probe_status > 299)

\* C20: a non-2xx answer to the probe ends the worker at once with the HTTP
\* error: one probe and no retry of it, no stream attempt, no progress
\* entry, the target neither created nor truncated; and the worker takes no
\* step after the error.
C20_ProbeFailurePropagates ==
    [][ \A w \in Workers :
          /\ (ProbeFailed(dl'[w]) =>
                /\ dl'[w].pc = "HTTPStatusError"
                /\ dl'[w].probes = 1
                /\ dl'[w].attempts = 0
                /\ dl'[w].task_id = None
                /\ sink' = sink
                /\ fs'[dl[w].target] = fs[dl[w].target])
          /\ (dl[w].pc = "HTTPStatusError" => dl'[w] = dl[w]) ]_vars

C20_Witness ==
    /\ dl[1].pc = "HTTPStatusError" /\ ProbeFailed(dl[1])
    /\ dl[1].probe_status = 404 /\ dl[1].probes = 1
    /\ dl[1].progress /\ sink = <<>> /\ dl[1].attempts = 0
    /\ fs[dl[1].target] = Some(<<1>>)

(***************************************************************************)
(* Properties of two concurrent download workers, under SpecDl2.           *)
(***************************************************************************)
Failed(d) == d.pc \in {"RuntimeError", "HTTPStatusError"}
Running(d) == d.pc \in {"start", "attempt", "streaming"}

\* The progress entry of worker d (None: it has none).
EntryOf(s, d) == IF d.task_id = None THEN None ELSE Some(s[d.task_id[1]])

\* C21: a download failure is scoped to its artifact.  Every step is one
\* worker's, and leaves each sibling's record (its attempts, its outcome),
\* target file and progress entry as they were; a worker that has failed
\* takes no further step; and whatever the siblings have done or failed,
\* a worker that has not ended can take its next step.
C21_FailureScopedToWorker ==
    [][ \A w \in Workers :
          /\ (dl'[w] # dl[w] =>
                \A v \in Workers \ {w} :
                    /\ dl'[v] = dl[v]
                    /\ fs'[dl[v].target] = fs[dl[v].target]
                    /\ EntryOf(sink', dl'[v]) = EntryOf(sink, dl[v]))
          /\ (Failed(dl[w]) => dl'[w] = dl[w])
          /\ (Running(dl[w]) => ENABLED DlRun(w)) ]_vars

C21_Witness ==
    /\ dl[1].pc = "RuntimeError" /\ dl[1].attempts = MAX_ATTEMPTS
    /\ dl[2].pc = "done" /\ dl[2].attempts = 1
    /\ fs[dl[2].target] = Some(dl[2].streamed) /\ dl[2].streamed # <<>>
    /\ dl[1].task_id # None /\ dl[2].task_id # None

(***************************************************************************)
(* Properties of the client's operations, under SpecClient.                *)
(***************************************************************************)
\* C22: get_multiple_versions ends in ValueError (too many ids) exactly
\* when the server answered 414, and in HTTPStatusError carrying the status
\* for every other non-2xx answer.
C22_TooManyIdsOn414 ==
    last.op = "get_multiple_versions" =>
        /\ (last.outcome = "ValueError" <=> (last.sent = 1 /\ obs[1].status = 414))
        /\ (last.sent = 1 /\ ~is_success(obs[1].status) /\ obs[1].status # 414 =>
               last.outcome = "HTTPStatusError" /\ last.status = obs[1].status)
        /\ (last.sent = 1 /\ is_success(obs[1].status) => last.outcome = "ok")

C22_Witness ==
    /\ last.op = "get_multiple_versions" /\ last.outcome = "ValueError"
    /\ last.args = <<"v1", "v2">>
    /\ obs # None /\ obs[1].status = 414 /\ obs[1].url = versions_url

\* C23: check_slug_validity returns on a 2xx answer, ends in ValueError
\* (invalid slug) on a 4xx answer, and reports any other non-2xx answer as
\* HTTPStatusError carrying the status.
C23_InvalidSlugOn4xx ==
    (last.op = "check_slug_validity" /\ last.sent = 1) =>
        LET st == obs[1].status IN
        /\ (is_success(st) => last.outcome = "ok")
        /\ (st >= 400 /\ st <= 499 => last.outcome = "ValueError")
        /\ (~is_success(st) /\ ~(st >= 400 /\ st <= 499) =>
               last.outcome = "HTTPStatusError" /\ last.status = st)

\* C26: get_project_dependencies sends at most one request, and the
\* request is for /project/{slug}/dependencies, {slug} being the string
\* given or the id of the Project given.
C26_DependenciesPath ==
    last.op = "get_project_dependencies" =>
        /\ last.sent <= 1
        /\ (last.sent = 1 =>
               obs[1].url = <<"/project/", last.args.v, "/dependencies">>)

(***************************************************************************)
(* Properties of a whole iteration, under SpecDrain.                       *)
(***************************************************************************)
\* C24: in an iteration that has not raised the too-vague RuntimeError,
\* against a server whose total is constant and whose pages agree with it,
\* the requests sent never outnumber the tracker's limit.
C24_RequestsWithinLimit ==
    last.outcome # "RuntimeError" => Len(served) <= rl.limit

\* C28: an iterator built with offset o and limit l asks the server for
\* offset o first and for o + l, o + 2l, ... after it: the caller's offset is
\* honoured also when it is not a multiple of the limit.
C28_OffsetHonoured ==
    \A j \in DOMAIN obs[1].asked :
        obs[1].asked[j] = it.offset + (j - 1) * it.limit

(***************************************************************************)
(* Properties of two threads on one client, under SpecThreads.             *)
(***************************************************************************)
Quiescent == \A t \in Threads : th[t].pc \in {"idle", "send"}
TrackerHeaders == <<rl.limit, rl.remaining, rl.reset>>

C27_FailedPageNotCached ==
    (last.op = "page" /\ last.outcome = "IndexError") =>
        last.args[1] \notin DOMAIN it.page_cache

(***************************************************************************)
(* Properties of the streamed body and of progress, under SpecDl.          *)
(***************************************************************************)
\* C29: a worker never completes without error when the streaming GET of
\* the body was answered with a status outside 2xx, with or without an
\* expected hash.
C29_ErrorBodyNotAccepted ==
    \A w \in Workers : dl[w].pc = "done" => is_success(dl[w].get_status)

\* C30: a worker's progress entry never advances past the total it was
\* registered with: against a server whose bodies are never longer than
\* the Content-Length of the probe, the advances applied over all attempts
\* sum to at most that length.
C30_ProgressWithinTotal ==
    \A w \in Workers :
        (dl[w].task_id # None /\ dl[w].total >= MaxBody) =>
            sink[dl[w].task_id[1]].completed <= sink[dl[w].task_id[1]].total

(***************************************************************************)
(* Recovery from exhaustion, under SpecClient.                             *)
(***************************************************************************)
\* The response the call received carries none of the ratelimit headers.
NoRatelimitHeaders(resp) ==
    resp.hlimit < 0 /\ resp.hremaining < 0 /\ resp.hreset < 0

\* The budget is 0 and the clock has passed last_hit + reset.
WindowOver == rl.remaining = 0 /\ now > reset_at(rl)

\* C31: exhaustion is temporary.  Once the clock has passed
\* last_hit + reset the tracker no longer answers exhausted, with no sync
\* in between; the next call of the client is sent to the server; and when
\* the response to it carries no ratelimit headers the tracker is not
\* exhausted again after the call.
C31_ExhaustionIsTemporary ==
    [][ /\ (WindowOver => ~are_ratelimited(rl, now))
        /\ (WindowOver /\ last'.op = "get_json" =>
              /\ last'.sent = 1
              /\ (NoRatelimitHeaders(obs'[1]) => ~Exhausted(rl', now'))) ]_vars

====
